---- MODULE Spec2Model ----
(***************************************************************************)
(* A model of aisvg's semantic layout resolver (generator-semantic.ts),    *)
(* the position vocabulary of schema-semantic.ts, and the part of the CLI  *)
(* loop (cli.ts, storage.ts) that calls the resolver and saves its result. *)
(*                                                                         *)
(* Numbers.  The code computes with JavaScript numbers.  Every value it    *)
(* derives from integer inputs is of the form (q + s*sqrt(3)) / 4 with q   *)
(* and s integers: halves come from size/2, width/2, canvasWidth/2, and    *)
(* the only irrational is height/2 = size*sqrt(3)/4 of a triangle.  A      *)
(* number is therefore the record [q |-> q, s |-> s], exact for + and -.   *)
(***************************************************************************)
EXTENDS Integers, Sequences, FiniteSets, TLC

\* ------------------------------------------------------------ bounds
\* The work of a session: the layers its requests hand to the resolver, a request
\* that hands it none counting 1.
MaxSessionWork == 3
\* The processLayer frames the engine's call stack holds.
StackLimit == 4

\* ------------------------------------------------------------ numbers
Num(n) == [q |-> 4 * n, s |-> 0]
Half(n) == [q |-> 2 * n, s |-> 0]
\* (size * Math.sqrt(3)) / 2, then / 2 again where it is used
HalfHeight(size) == [q |-> 0, s |-> size]
Plus(a, b) == [q |-> a.q + b.q, s |-> a.s + b.s]
Minus(a, b) == [q |-> a.q - b.q, s |-> a.s - b.s]

\* an optional string that is absent (undefined)
Undefined == "undefined"
\* an optional number is a sequence of length 0 (absent) or 1
Absent == << >>
Some(n) == << n >>

\* ------------------------------------------------------------ schema
Alignments ==
  { "tip_touches_left", "tip_touches_right", "tip_touches_top", "tip_touches_bottom",
    "edge_touches_left", "edge_touches_right", "edge_touches_top", "edge_touches_bottom",
    "center_aligned", "adjacent_left", "adjacent_right" }

AbsolutePos(x, y) ==
  [type |-> "absolute", x |-> x, y |-> y, relativeTo |-> Undefined,
   alignment |-> Undefined, offset |-> Absent]
CenteredPos ==
  [type |-> "centered", x |-> 0, y |-> 0, relativeTo |-> Undefined,
   alignment |-> Undefined, offset |-> Absent]
RelativePos(to, alignment, offset) ==
  [type |-> "relative", x |-> 0, y |-> 0, relativeTo |-> to,
   alignment |-> alignment, offset |-> offset]

BlankShape ==
  [shapeType |-> Undefined, triangleType |-> Undefined, orientation |-> Undefined,
   size |-> 0, width |-> 0, height |-> 0, radius |-> 0, radiusX |-> 0, radiusY |-> 0]
TriangleShape(triangleType, orientation, size) ==
  [BlankShape EXCEPT !.shapeType = "triangle", !.triangleType = triangleType,
                     !.orientation = orientation, !.size = size]
RectangleShape(width, height) ==
  [BlankShape EXCEPT !.shapeType = "rectangle", !.width = width, !.height = height]
CircleShape(radius) ==
  [BlankShape EXCEPT !.shapeType = "circle", !.radius = radius]
EllipseShape(radiusX, radiusY) ==
  [BlankShape EXCEPT !.shapeType = "ellipse", !.radiusX = radiusX, !.radiusY = radiusY]
DiamondShape(size) ==
  [BlankShape EXCEPT !.shapeType = "diamond", !.size = size]

SemanticLayer(id, shape, position) == [id |-> id, shape |-> shape, position |-> position]

\* ------------------------------------------------------------ geometry
Box(left, right, top, bottom) ==
  [left |-> left, right |-> right, top |-> top, bottom |-> bottom]

DefaultBox == 50

calculateBoundsFixed(shape, centerX, centerY) ==
  Box(Minus(centerX, Num(DefaultBox)), Plus(centerX, Num(DefaultBox)),
      Minus(centerY, Num(DefaultBox)), Plus(centerY, Num(DefaultBox)))
calculateBounds(shape, centerX, centerY) ==
  CASE shape.shapeType = "circle" ->
         Box(Minus(centerX, Num(shape.radius)), Plus(centerX, Num(shape.radius)),
             Minus(centerY, Num(shape.radius)), Plus(centerY, Num(shape.radius)))
    [] shape.shapeType = "rectangle" ->
         Box(Minus(centerX, Half(shape.width)), Plus(centerX, Half(shape.width)),
             Minus(centerY, Half(shape.height)), Plus(centerY, Half(shape.height)))
    [] shape.shapeType = "triangle" ->
         IF shape.orientation \in {"pointing_right", "pointing_left"}
         THEN Box(Minus(centerX, Half(shape.size)), Plus(centerX, Half(shape.size)),
                  Minus(centerY, HalfHeight(shape.size)),
                  Plus(centerY, HalfHeight(shape.size)))
         ELSE Box(Minus(centerX, Half(shape.size)), Plus(centerX, Half(shape.size)),
                  Minus(centerY, Half(shape.size)), Plus(centerY, Half(shape.size)))
    [] shape.shapeType = "diamond" ->
         Box(Minus(centerX, Half(shape.size)), Plus(centerX, Half(shape.size)),
             Minus(centerY, Half(shape.size)), Plus(centerY, Half(shape.size)))
    [] OTHER ->
         Box(Minus(centerX, Num(DefaultBox)), Plus(centerX, Num(DefaultBox)),
             Minus(centerY, Num(DefaultBox)), Plus(centerY, Num(DefaultBox)))

CalculatedShape(id, centerX, centerY, bounds) ==
  [id |-> id, centerX |-> centerX, centerY |-> centerY, bounds |-> bounds]

EmptyShapes == [id \in {} |-> 0]
ShapesSetAlone(shapes, id, value) == [j \in {id} |-> value]
\* calculatedShapes.set(id, value)
ShapesSet(shapes, id, value) ==
  [j \in DOMAIN shapes \cup {id} |-> IF j = id THEN value ELSE shapes[j]]
KeepShapes(shapes) == shapes
\* calculatedShapes.clear()
ClearShapes(shapes) == EmptyShapes

\* ------------------------------------------------------------ errors
NoError == [name |-> Undefined, about |-> Undefined, id |-> Undefined]
ReferenceNotFoundUnnamed(position) ==
  [name |-> "Error", about |-> "reference_shape_not_found", id |-> Undefined]
\* new Error(`Reference shape "${position.relativeTo}" not found`)
ReferenceNotFound(position) ==
  [name |-> "Error", about |-> "reference_shape_not_found", id |-> position.relativeTo]
\* new Error(`Unknown shape type: ${shapeType}`)
UnknownShapeType(shape) ==
  [name |-> "Error", about |-> "unknown_shape_type", id |-> shape.shapeType]
\* what the engine raises when processLayer's recursion exhausts the call stack
StackExhausted ==
  [name |-> "RangeError", about |-> "maximum_call_stack_size_exceeded", id |-> Undefined]
\* what callLLM raises (no API answer, or an answer that is not a JSON specification)
LlmFailure ==
  [name |-> "Error", about |-> "llm_request_failed", id |-> Undefined]

\* ------------------------------------------------------------ position resolver
TruthyAlways(s) == TRUE
Truthy(s) == s \notin {Undefined, ""}
Point(x, y) == [x |-> x, y |-> y]
OffsetOrZero(position) ==
  IF position.offset = Absent THEN Num(0) ELSE Num(position.offset[1])

TipTouchesLeftFromCenter(reference, offset) ==
  Point(Plus(reference.centerX, offset), reference.centerY)
TipTouchesLeft(reference, offset) ==
  Point(Plus(reference.bounds.left, offset), reference.centerY)
TipTouchesRight(reference, offset) ==
  Point(Plus(reference.bounds.right, offset), reference.centerY)
TipTouchesTop(reference, offset) ==
  Point(reference.centerX, Plus(reference.bounds.top, offset))
TipTouchesBottom(reference, offset) ==
  Point(reference.centerX, Plus(reference.bounds.bottom, offset))
CenterAligned(reference, offset) ==
  Point(reference.centerX, reference.centerY)
AdjacentLeftAdds(reference, offset) ==
  Point(Plus(reference.bounds.left, offset), reference.centerY)
AdjacentLeft(reference, offset) ==
  Point(Minus(reference.bounds.left, offset), reference.centerY)
AdjacentRight(reference, offset) ==
  Point(Plus(reference.bounds.right, offset), reference.centerY)

AlignToEdgeByDefault(reference, alignment, offset) ==
  IF alignment = "center_aligned"
  THEN CenterAligned(reference, offset)
  ELSE TipTouchesLeft(reference, offset)
\* switch (position.alignment)
AlignTo(reference, alignment, offset) ==
  CASE alignment = "tip_touches_left" -> TipTouchesLeft(reference, offset)
    [] alignment = "tip_touches_right" -> TipTouchesRight(reference, offset)
    [] alignment = "tip_touches_top" -> TipTouchesTop(reference, offset)
    [] alignment = "tip_touches_bottom" -> TipTouchesBottom(reference, offset)
    [] alignment = "center_aligned" -> CenterAligned(reference, offset)
    [] alignment = "adjacent_left" -> AdjacentLeft(reference, offset)
    [] alignment = "adjacent_right" -> AdjacentRight(reference, offset)
    [] OTHER -> Point(reference.centerX, reference.centerY)

CanvasCenterTransposed(canvasWidth, canvasHeight) ==
  Point(Half(canvasHeight), Half(canvasWidth))
\* { x: canvasWidth / 2, y: canvasHeight / 2 }
CanvasCenter(canvasWidth, canvasHeight) == Point(Half(canvasWidth), Half(canvasHeight))

\* the center returned, or the error thrown
Center(point) == [thrown |-> FALSE, at |-> point, error |-> NoError]
Raise(error) == [thrown |-> TRUE, at |-> Point(Num(0), Num(0)), error |-> error]

calculatePosition(layer, canvasWidth, canvasHeight, shapes) ==
  LET position == layer.position IN
  IF position.type = "absolute"
  THEN Center(Point(Num(position.x), Num(position.y)))
  ELSE IF position.type = "centered"
  THEN Center(CanvasCenter(canvasWidth, canvasHeight))
  ELSE IF position.type = "relative" /\ Truthy(position.relativeTo)
  THEN IF position.relativeTo \notin DOMAIN shapes
       THEN Raise(ReferenceNotFound(position))
       ELSE Center(AlignTo(shapes[position.relativeTo], position.alignment,
                           OffsetOrZero(position)))
  ELSE Center(CanvasCenter(canvasWidth, canvasHeight))

ShapesAfterPositionCached(layer, shapes) ==
  ShapesSet(shapes, "cache", CalculatedShape(layer.id, Num(0), Num(0), Box(0, 0, 0, 0)))
\* the mapping after calculatePosition: its only use of it is calculatedShapes.get
ShapesAfterPosition(layer, shapes) == shapes

\* ------------------------------------------------------------ markup
FallbackOffset == 50

calculateTriangle(shape, centerX, centerY) ==
  LET half == Half(shape.size)
      halfHeight == HalfHeight(shape.size)
      fifty == Num(FallbackOffset)
  IN
  IF shape.triangleType = "equilateral" /\ shape.orientation = "pointing_right"
  THEN << Point(Minus(centerX, half), Minus(centerY, halfHeight)),
          Point(Minus(centerX, half), Plus(centerY, halfHeight)),
          Point(Plus(centerX, half), centerY) >>
  ELSE IF shape.triangleType = "equilateral" /\ shape.orientation = "pointing_left"
  THEN << Point(Plus(centerX, half), Minus(centerY, halfHeight)),
          Point(Plus(centerX, half), Plus(centerY, halfHeight)),
          Point(Minus(centerX, half), centerY) >>
  ELSE IF shape.triangleType = "equilateral" /\ shape.orientation = "pointing_up"
  THEN << Point(centerX, Minus(centerY, halfHeight)),
          Point(Minus(centerX, half), Plus(centerY, halfHeight)),
          Point(Plus(centerX, half), Plus(centerY, halfHeight)) >>
  ELSE IF shape.triangleType = "equilateral" /\ shape.orientation = "pointing_down"
  THEN << Point(centerX, Plus(centerY, halfHeight)),
          Point(Minus(centerX, half), Minus(centerY, halfHeight)),
          Point(Plus(centerX, half), Minus(centerY, halfHeight)) >>
  ELSE << Point(centerX, Minus(centerY, fifty)),
          Point(Minus(centerX, fifty), Plus(centerY, fifty)),
          Point(Plus(centerX, fifty), Plus(centerY, fifty)) >>

\* One line of markup: the element's tag, its id, its center and, for a polygon,
\* its points.  Style attributes and the description comment are copied from the
\* layer unchanged and are left out.
Element(tag, id, centerX, centerY, points) ==
  [tag |-> tag, id |-> id, x |-> centerX, y |-> centerY, points |-> points]
Emitted(element) == [thrown |-> FALSE, element |-> element, error |-> NoError]
EmitFailed(error) ==
  [thrown |-> TRUE, element |-> Element("", "", Num(0), Num(0), << >>), error |-> error]

layerToSvg(layer, centerX, centerY) ==
  LET shape == layer.shape IN
  CASE shape.shapeType = "triangle" ->
         Emitted(Element("polygon", layer.id, centerX, centerY,
                         calculateTriangle(shape, centerX, centerY)))
    [] shape.shapeType = "circle" ->
         Emitted(Element("circle", layer.id, centerX, centerY, << >>))
    [] shape.shapeType = "rectangle" ->
         Emitted(Element("rect", layer.id, centerX, centerY, << >>))
    [] shape.shapeType = "ellipse" ->
         Emitted(Element("ellipse", layer.id, centerX, centerY, << >>))
    [] shape.shapeType = "line" ->
         Emitted(Element("line", layer.id, centerX, centerY, << >>))
    [] shape.shapeType = "diamond" ->
         Emitted(Element("polygon", layer.id, centerX, centerY,
                         << Point(centerX, Minus(centerY, Half(shape.size))),
                            Point(Plus(centerX, Half(shape.size)), centerY),
                            Point(centerX, Plus(centerY, Half(shape.size))),
                            Point(Minus(centerX, Half(shape.size)), centerY) >>))
    [] OTHER -> EmitFailed(UnknownShapeType(shape))

\* the four header lines and the closing tag
SvgOpen(canvasSize) ==
  Element("svg", "", Num(canvasSize.width), Num(canvasSize.height), << >>)
SvgClose == Element("/svg", "", Num(0), Num(0), << >>)

\* ------------------------------------------------------------ dependency orderer
\* new Map(layers.map(l => [l.id, l])): a later layer replaces an earlier one of
\* the same id
LayerIndexes(layers, id) == { j \in 1..Len(layers) : layers[j].id = id }
layerMapHas(layers, id) == LayerIndexes(layers, id) # {}
layerMapIndex(layers, id) ==
  CHOOSE j \in LayerIndexes(layers, id) : \A m \in LayerIndexes(layers, id) : m <= j
layerMapGet(layers, id) == layers[layerMapIndex(layers, id)]

DependsOnNothing(layer) == FALSE
\* layer.position.type === 'relative' && layer.position.relativeTo
DependsOn(layer) == layer.position.type = "relative" /\ Truthy(layer.position.relativeTo)
MustVisitFirstNever(layer, layers, processed) == FALSE
\* ref && !processed.has(ref.id)
MustVisitFirst(layer, layers, processed) ==
  /\ DependsOn(layer)
  /\ layerMapHas(layers, layer.position.relativeTo)
  /\ layerMapGet(layers, layer.position.relativeTo).id \notin processed
AlreadyProcessedNever(layer, processed) == FALSE
\* processed.has(layer.id)
AlreadyProcessed(layer, processed) == layer.id \in processed
PushSortedFirst(sorted, layer) == << layer >> \o sorted
\* sorted.push(layer)
PushSorted(sorted, layer) == Append(sorted, layer)

\* ------------------------------------------------------------ one call of generateSemanticSvg
\* A layer object is referred to by its index in spec.layers: `sorted` and the
\* frames of processLayer hold indexes.
\* What the caller gets: the markup returned, or the error thrown (and no value).
NoResult == [returned |-> FALSE, markup |-> << >>, error |-> NoError]
Return(svg) == [returned |-> TRUE, markup |-> Append(svg, SvgClose), error |-> NoError]
Throw(error) == [returned |-> FALSE, markup |-> << >>, error |-> error]

\* The activation record: where the call is (pc), the locals of
\* sortLayersByDependencies (sorted, processed, the index i of its for loop and
\* the frames of processLayer on the call stack), the locals of
\* generateSemanticSvg (svg, the index k of its loop) and how the call ended.
NoCall ==
  [pc |-> "none", sorted |-> << >>, processed |-> {}, stack |-> << >>, i |-> 1,
   k |-> 1, svg |-> << >>, result |-> NoResult]
Frame(layer, resumed) == [layer |-> layer, resumed |-> resumed]
Ended(call, result) ==
  [call EXCEPT !.pc = "returned", !.stack = << >>, !.result = result]
Machine(shapes, call) == [shapes |-> shapes, call |-> call]

\* calculatedShapes.clear(); sortLayersByDependencies(layers) is entered
Enter(spec, shapes) ==
  Machine(ClearShapes(shapes), [NoCall EXCEPT !.pc = "sort"])

\* for (const layer of layers) processLayer(layer); return sorted; then the svg
\* header is built
SortLoopStep(spec, shapes, call) ==
  IF call.i <= Len(spec.layers)
  THEN Machine(shapes, [call EXCEPT !.stack = << Frame(call.i, FALSE) >>,
                                    !.i = call.i + 1])
  ELSE Machine(shapes, [call EXCEPT !.pc = "place", !.k = 1,
                                    !.svg = << SvgOpen(spec.canvasSize) >>])

\* sorted.push(layer); processed.add(layer.id); return
Finished(spec, call, layer) ==
  [call EXCEPT !.sorted = PushSorted(call.sorted, layer),
               !.processed = call.processed \cup {spec.layers[layer].id},
               !.stack = SubSeq(call.stack, 1, Len(call.stack) - 1)]

\* one step of the innermost processLayer frame
ProcessLayerStep(spec, shapes, call) ==
  LET depth == Len(call.stack)
      frame == call.stack[depth]
      layer == spec.layers[frame.layer]
  IN
  IF frame.resumed
  THEN Machine(shapes, Finished(spec, call, frame.layer))
  ELSE IF AlreadyProcessed(layer, call.processed)
  THEN Machine(shapes, [call EXCEPT !.stack = SubSeq(call.stack, 1, depth - 1)])
  ELSE IF MustVisitFirst(layer, spec.layers, call.processed)
  THEN IF depth >= StackLimit
       THEN Machine(shapes, Ended(call, Throw(StackExhausted)))
       ELSE Machine(shapes,
              [call EXCEPT !.stack =
                 Append([call.stack EXCEPT ![depth] = Frame(frame.layer, TRUE)],
                        Frame(layerMapIndex(spec.layers, layer.position.relativeTo),
                              FALSE))])
  ELSE Machine(shapes, Finished(spec, call, frame.layer))

SvgPushNothing(svg, element) == svg
\* svg.push(svgElement)
SvgPush(svg, element) == Append(svg, element)

\* one iteration of "for (const layer of sortedLayers)", or the return after it
PlaceStep(spec, shapes, call) ==
  IF call.k > Len(call.sorted)
  THEN Machine(shapes, Ended(call, Return(call.svg)))
  ELSE
    LET layer == spec.layers[call.sorted[call.k]]
        center == calculatePosition(layer, spec.canvasSize.width,
                                    spec.canvasSize.height, shapes)
        looked == ShapesAfterPosition(layer, shapes)
        bounds == calculateBounds(layer.shape, center.at.x, center.at.y)
        stored == ShapesSet(looked, layer.id,
                            CalculatedShape(layer.id, center.at.x, center.at.y, bounds))
        emitted == layerToSvg(layer, center.at.x, center.at.y)
    IN
    IF center.thrown
    THEN Machine(looked, Ended(call, Throw(center.error)))
    ELSE IF emitted.thrown
    THEN Machine(stored, Ended(call, Throw(emitted.error)))
    ELSE Machine(stored, [call EXCEPT !.svg = SvgPush(call.svg, emitted.element),
                                      !.k = call.k + 1])

Step(spec, shapes, call) ==
  CASE call.pc = "sort" /\ call.stack = << >> -> SortLoopStep(spec, shapes, call)
    [] call.pc = "sort" /\ call.stack # << >> -> ProcessLayerStep(spec, shapes, call)
    [] call.pc = "place" -> PlaceStep(spec, shapes, call)
    [] OTHER -> Machine(shapes, call)

RECURSIVE RunToEnd(_, _)
RunToEnd(spec, machine) ==
  IF machine.call.pc \notin {"sort", "place"}
  THEN machine
  ELSE RunToEnd(spec, Step(spec, machine.shapes, machine.call))

\* generateSemanticSvg(spec) started with the placement mapping holding `shapes`
generateSemanticSvg(spec, shapes) == RunToEnd(spec, Enter(spec, shapes))

\* ------------------------------------------------------------ coordinate generator
\* generateSvgMarkup(spec) of generator.ts: one element per layer, in declaration
\* order; a layer of an unknown type throws.  A coordinate layer is its type.
CoordinateTypes ==
  { "rect", "circle", "ellipse", "line", "polyline", "polygon", "path", "text" }
RECURSIVE CoordinateElements(_)
CoordinateElements(layers) ==
  IF layers = << >> THEN << >>
  ELSE << Element(Head(layers), "", Num(0), Num(0), << >>) >>
         \o CoordinateElements(Tail(layers))
generateSvgMarkup(layers) ==
  IF \E j \in 1..Len(layers) : layers[j] \notin CoordinateTypes
  THEN Throw([name |-> "Error", about |-> "unknown_shape_type",
              id |-> layers[CHOOSE j \in 1..Len(layers) :
                              /\ layers[j] \notin CoordinateTypes
                              /\ \A m \in 1..(j - 1) : layers[m] \in CoordinateTypes]])
  ELSE Return(<< Element("svg", "", Num(0), Num(0), << >>) >> \o CoordinateElements(layers))

\* ------------------------------------------------------------ storage
\* metadata.push({..., prompt, mode, spec}); the entry keeps what the CLI reads back
MetadataEntry(prompt, mode) == [prompt |-> prompt, mode |-> mode]
saveSvg(metadata, prompt, mode) == Append(metadata, MetadataEntry(prompt, mode))
\* metadata.length > 0 ? metadata[metadata.length - 1] : null
getLastSvg(metadata) == metadata[Len(metadata)]

\* ------------------------------------------------------------ inputs
CanvasSize(width, height) == [width |-> width, height |-> height]
SemanticSvgSpec(canvasSize, layers) == [canvasSize |-> canvasSize, layers |-> layers]
NoSpec == SemanticSvgSpec(CanvasSize(0, 0), << >>)

\* The ball valve of the system prompt.
ValveCircle == SemanticLayer("center_circle", CircleShape(30), CenteredPos)
ValveLeft ==
  SemanticLayer("left", TriangleShape("equilateral", "pointing_right", 100),
                RelativePos("center_circle", "tip_touches_left", Absent))
ValveRight ==
  SemanticLayer("right", TriangleShape("equilateral", "pointing_left", 100),
                RelativePos("center_circle", "tip_touches_right", Absent))
ValveLayers == { ValveCircle, ValveLeft, ValveRight }
ValveCanvas == CanvasSize(400, 400)
ValveSpecs ==
  { SemanticSvgSpec(ValveCanvas, layers) :
      layers \in { f \in [1..3 -> ValveLayers] : \A m, n \in 1..3 : f[m] = f[n] => m = n } }

\* Specifications over three identifiers: each layer is not relative, or relative to
\* one of the three (itself included, present in the specification or not) or to
\* an identifier that no layer has.
Ids == { "a", "b", "c" }
Targets == Ids \cup { "z" }
ShapeOf(id) ==
  CASE id = "a" -> CircleShape(30)
    [] id = "b" -> RectangleShape(40, 20)
    [] OTHER -> DiamondShape(40)
FixedPositionOf(id) ==
  CASE id = "b" -> AbsolutePos(50, 60)
    [] OTHER -> CenteredPos
AlignmentOf(id) ==
  CASE id = "a" -> "tip_touches_right"
    [] id = "b" -> "adjacent_left"
    [] OTHER -> "tip_touches_bottom"
OffsetOf(id) ==
  CASE id = "a" -> Absent
    [] id = "b" -> Some(10)
    [] OTHER -> Some(5)
PositionsOf(id) ==
  { FixedPositionOf(id) } \cup { RelativePos(to, AlignmentOf(id), OffsetOf(id)) : to \in Targets }
GraphLayers ==
  UNION { { SemanticLayer(id, ShapeOf(id), position) : position \in PositionsOf(id) } :
          id \in Ids }
GraphCanvas == CanvasSize(400, 300)
\* the layer lists of n layers over the graph layers
GraphLayerLists(n) == [1..n -> GraphLayers]

\* Specifications outside the data model's invariants (the answer of the language
\* model is not validated): an identifier declared twice with different positions,
\* a relative position without relativeTo, a position of a type the schema does
\* not have.
PolarPos ==
  [type |-> "polar", x |-> 7, y |-> 9, relativeTo |-> "b",
   alignment |-> "tip_touches_left", offset |-> Some(10)]
OddLayers ==
  { SemanticLayer("a", ShapeOf("a"), RelativePos("b", AlignmentOf("a"), OffsetOf("a"))),
    SemanticLayer("b", ShapeOf("b"), AbsolutePos(50, 60)),
    SemanticLayer("b", ShapeOf("b"), CenteredPos),
    SemanticLayer("b", ShapeOf("b"), RelativePos("c", AlignmentOf("b"), OffsetOf("b"))),
    SemanticLayer("c", ShapeOf("c"), RelativePos(Undefined, AlignmentOf("c"), OffsetOf("c"))),
    SemanticLayer("c", ShapeOf("c"), PolarPos) }
OddSpecs ==
  { SemanticSvgSpec(GraphCanvas, layers) :
      layers \in [1..2 -> OddLayers] \cup [1..3 -> OddLayers] }

CoordinateSpecs == { << "circle" >>, << "rect", "widget" >> }

\* ------------------------------------------------------------ state
VARIABLES
  currentMode,      \* cli.ts: let currentMode
  metadata,         \* storage.ts: the entries of diagrams/metadata.json
  files,            \* storage.ts: the SVG files written, with the request of each
  console,          \* what the loop printed for each request: success or the error
  requests,         \* the number of prompts handled so far
  work,             \* the work of the session so far
  prompt,           \* the prompt being handled
  spec,             \* the specification being resolved
  call,             \* the activation of generateSemanticSvg
  calculatedShapes, \* generator-semantic.ts: const calculatedShapes
  probe,            \* one call of calculatePosition on its own: its arguments and result
  kernel            \* one shape placed on its own: its bounds, its element, a neighbour

vars ==
  << currentMode, metadata, files, console, requests, work, prompt, spec,
     call, calculatedShapes, probe, kernel >>

NoPrompt == [request |-> 0, refine |-> FALSE]
Prompt(request, refine) == [request |-> request, refine |-> refine]
NoPreviousSvg ==
  [name |-> "Error", about |-> "no_previous_svg_found_to_refine", id |-> Undefined]

\* no call of calculatePosition under examination
NoProbe ==
  [layer |-> SemanticLayer("", BlankShape, CenteredPos), canvasSize |-> CanvasSize(0, 0),
   shapes |-> EmptyShapes, resolved |-> FALSE, center |-> Center(Point(Num(0), Num(0)))]

\* the process after its modules are loaded
Loaded ==
  /\ currentMode = "coordinate"
  /\ metadata = << >>
  /\ files = << >>
  /\ console = << >>
  /\ requests = 0
  /\ work = 0
  /\ prompt = NoPrompt
  /\ spec = NoSpec
  /\ call = NoCall
  /\ calculatedShapes = EmptyShapes

\* no shape under examination
NoKernel ==
  [shape |-> BlankShape, centerX |-> Num(0), centerY |-> Num(0), placed |-> FALSE,
   bounds |-> Box(Num(0), Num(0), Num(0), Num(0)), element |-> EmitFailed(NoError),
   position |-> CenteredPos, beside |-> FALSE, neighbour |-> Center(Point(Num(0), Num(0)))]

Init == Loaded /\ probe = NoProbe /\ kernel = NoKernel

\* ------------------------------------------------------------ the CLI loop
AtPrompt == call.pc = "none"

SavesAlways(result) == TRUE
\* saveSvg is reached only when the generator returned: a throw lands in catch
Saves(result) == result.returned

\* the rest of the try block after the markup call, or the catch block
Settle(result, p, mode) ==
  IF Saves(result)
  THEN /\ files' = Append(files, [request |-> p.request, markup |-> result.markup])
       /\ metadata' = saveSvg(metadata, p, mode)
       /\ console' = Append(console, [request |-> p.request, error |-> NoError])
  ELSE /\ console' = Append(console, [request |-> p.request, error |-> result.error])
       /\ UNCHANGED << files, metadata >>

\* mode s | mode c
CliMode(mode) ==
  /\ AtPrompt
  /\ currentMode' = mode
  /\ UNCHANGED << metadata, files, console, requests, work, prompt, spec,
                  call, calculatedShapes, probe, kernel >>

\* the language model answered with specification s; generateSemanticSvg(s) starts
StartSemantic(s, refine) ==
  /\ requests' = requests + 1
  /\ work' = work + Len(s.layers)
  /\ prompt' = Prompt(requests + 1, refine)
  /\ spec' = s
  /\ call' = Enter(s, calculatedShapes).call
  /\ calculatedShapes' = Enter(s, calculatedShapes).shapes
  /\ UNCHANGED << currentMode, metadata, files, console, probe, kernel >>

\* the whole coordinate branch: generateSvgMarkup(layers), then saveSvg or catch
RunCoordinate(layers, refine) ==
  /\ requests' = requests + 1
  /\ work' = work + 1
  /\ Settle(generateSvgMarkup(layers), Prompt(requests + 1, refine), "coordinate")
  /\ UNCHANGED << currentMode, prompt, spec, call, calculatedShapes, probe, kernel >>

\* the language model answers with a specification of at most `room` layers
AnswerSemantic(room, refine) ==
  \/ \E n \in 1..room : \E layers \in GraphLayerLists(n) :
       StartSemantic(SemanticSvgSpec(GraphCanvas, layers), refine)
  \/ \E s \in ValveSpecs : Len(s.layers) <= room /\ StartSemantic(s, refine)
  \/ \E s \in OddSpecs : Len(s.layers) <= room /\ StartSemantic(s, refine)

\* <description> in semantic mode
CliGenerateSemantic ==
  /\ AtPrompt /\ work < MaxSessionWork
  /\ currentMode = "semantic"
  /\ AnswerSemantic(MaxSessionWork - work, FALSE)

\* <description> in coordinate mode
CliGenerateCoordinate ==
  /\ AtPrompt /\ work < MaxSessionWork
  /\ currentMode = "coordinate"
  /\ \E layers \in CoordinateSpecs : RunCoordinate(layers, FALSE)

RefineModeCurrent(saved, mode) == mode
\* lastSvg.mode, lastSvg being getLastSvg()
RefineMode(saved, mode) == getLastSvg(saved).mode

\* refine <text> when the last saved SVG was semantic
CliRefineSemantic ==
  /\ AtPrompt /\ work < MaxSessionWork
  /\ metadata # << >>
  /\ RefineMode(metadata, currentMode) = "semantic"
  /\ AnswerSemantic(MaxSessionWork - work, TRUE)

\* refine <text> when the last saved SVG was coordinate
CliRefineCoordinate ==
  /\ AtPrompt /\ work < MaxSessionWork
  /\ metadata # << >>
  /\ RefineMode(metadata, currentMode) # "semantic"
  /\ \E layers \in CoordinateSpecs : RunCoordinate(layers, TRUE)

\* refine <text> with nothing saved: "No previous SVG found to refine"
CliRefineNothing ==
  /\ AtPrompt /\ work < MaxSessionWork
  /\ metadata = << >>
  /\ requests' = requests + 1
  /\ work' = work + 1
  /\ console' = Append(console, [request |-> requests + 1, error |-> NoPreviousSvg])
  /\ UNCHANGED << currentMode, metadata, files, prompt, spec, call, calculatedShapes,
                  probe, kernel >>

\* the request to the language model throws: the catch block prints the error
CliLlmThrows ==
  /\ AtPrompt /\ work < MaxSessionWork
  /\ requests' = requests + 1
  /\ work' = work + 1
  /\ console' = Append(console, [request |-> requests + 1, error |-> LlmFailure])
  /\ UNCHANGED << currentMode, metadata, files, prompt, spec, call, calculatedShapes,
                  probe, kernel >>

\* ------------------------------------------------------------ the resolver's steps
Advance ==
  /\ call' = Step(spec, calculatedShapes, call).call
  /\ calculatedShapes' = Step(spec, calculatedShapes, call).shapes
  /\ UNCHANGED << currentMode, metadata, files, console, requests, work,
                  prompt, spec, probe, kernel >>

\* for (const layer of layers) processLayer(layer)
SortNextLayer ==
  /\ call.pc = "sort" /\ call.stack = << >> /\ call.i <= Len(spec.layers)
  /\ Advance

\* return sorted
SortReturns ==
  /\ call.pc = "sort" /\ call.stack = << >> /\ call.i > Len(spec.layers)
  /\ Advance

\* processLayer: skip, recurse into the referent, or push and return
ProcessLayer ==
  /\ call.pc = "sort" /\ call.stack # << >>
  /\ Advance
  /\ call'.pc = "sort"

\* processLayer's recursion exhausts the call stack
ProcessLayerOverflows ==
  /\ call.pc = "sort" /\ call.stack # << >>
  /\ Advance
  /\ call'.pc = "returned"

\* one layer is placed and emitted
PlaceLayer ==
  /\ call.pc = "place" /\ call.k <= Len(call.sorted)
  /\ Advance
  /\ call'.pc = "place"

\* calculatePosition (or layerToSvg) throws
PlaceLayerThrows ==
  /\ call.pc = "place" /\ call.k <= Len(call.sorted)
  /\ Advance
  /\ call'.pc = "returned"

\* svg.push('</svg>'); return svg.join('\n')
GenerateReturns ==
  /\ call.pc = "place" /\ call.k > Len(call.sorted)
  /\ Advance

\* back in the CLI: saveSvg and "Success!", or the catch block
CliSettle ==
  /\ call.pc = "returned"
  /\ Settle(call.result, prompt, "semantic")
  /\ call' = NoCall
  /\ prompt' = NoPrompt
  /\ spec' = NoSpec
  /\ UNCHANGED << currentMode, requests, work, calculatedShapes, probe, kernel >>

Next ==
  \/ \E mode \in { "semantic", "coordinate" } : CliMode(mode)
  \/ CliGenerateSemantic
  \/ CliGenerateCoordinate
  \/ CliRefineSemantic
  \/ CliRefineCoordinate
  \/ CliRefineNothing
  \/ CliLlmThrows
  \/ SortNextLayer
  \/ SortReturns
  \/ ProcessLayer
  \/ ProcessLayerOverflows
  \/ PlaceLayer
  \/ PlaceLayerThrows
  \/ GenerateReturns
  \/ CliSettle

Spec == Init /\ [][Next]_vars

\* ------------------------------------------------------------ calculatePosition on its own
\* The arguments of one call: a layer, a canvas and a placement mapping that holds
\* the referent "ref" or nothing.
ProbeOffsets == { Absent, Some(0), Some(10), Some(-5) }
ProbeAlignments == Alignments \cup { Undefined, "diagonal" }
ProbePositions ==
  { AbsolutePos(50, 60), CenteredPos }
    \cup { RelativePos(to, alignment, offset) :
             to \in { "ref", "gone", Undefined }, alignment \in ProbeAlignments,
             offset \in ProbeOffsets }
ProbeLayers == { SemanticLayer("probe", CircleShape(30), position) : position \in ProbePositions }
ProbeCanvases == { CanvasSize(400, 400), CanvasSize(401, 300) }
ProbeReferents ==
  { CalculatedShape("ref", Num(at[1]), Num(at[2]),
                    calculateBounds(shape, Num(at[1]), Num(at[2]))) :
      shape \in { CircleShape(30), RectangleShape(40, 20),
                  TriangleShape("equilateral", "pointing_right", 100) },
      at \in { << 200, 200 >>, << 10, 20 >> } }
ProbeShapes ==
  { EmptyShapes } \cup { ShapesSet(EmptyShapes, "ref", referent) : referent \in ProbeReferents }

InitPosition ==
  /\ Loaded
  /\ kernel = NoKernel
  /\ probe \in { [NoProbe EXCEPT !.layer = layer, !.canvasSize = canvasSize,
                                 !.shapes = shapes] :
                   layer \in ProbeLayers, canvasSize \in ProbeCanvases,
                   shapes \in ProbeShapes }

\* calculatePosition(layer, canvasWidth, canvasHeight)
ResolvePosition ==
  /\ ~probe.resolved
  /\ probe' = [probe EXCEPT
                 !.resolved = TRUE,
                 !.center = calculatePosition(probe.layer, probe.canvasSize.width,
                                              probe.canvasSize.height, probe.shapes)]
  /\ UNCHANGED << currentMode, metadata, files, console, requests, work,
                  prompt, spec, call, calculatedShapes, kernel >>

NextPosition == ResolvePosition

SpecPosition == InitPosition /\ [][NextPosition]_vars

\* ------------------------------------------------------------ one shape on its own
\* One iteration of the placing loop for a shape at a given center (its bounds are
\* computed and stored, its element is emitted), then the resolution of a
\* neighbour relative to it.
TriangleTypes == { "equilateral", "isosceles", "right" }
Orientations == { "pointing_up", "pointing_down", "pointing_left", "pointing_right" }
KernelShapes ==
  { CircleShape(30), RectangleShape(40, 20), EllipseShape(40, 20), EllipseShape(20, 60),
    DiamondShape(40), DiamondShape(100) }
    \cup { TriangleShape(triangleType, orientation, size) :
             triangleType \in TriangleTypes, orientation \in Orientations,
             size \in { 60, 100 } }
KernelCenters == { << 0, 0 >>, << 10, 10 >>, << 200, 200 >> }
KernelPositions ==
  { RelativePos("ref", alignment, offset) :
      alignment \in { "tip_touches_right", "tip_touches_top", "adjacent_left" },
      offset \in { Absent, Some(10) } }

InitGeometry ==
  /\ Loaded
  /\ probe = NoProbe
  /\ kernel \in { [NoKernel EXCEPT !.shape = shape, !.centerX = Num(at[1]),
                                   !.centerY = Num(at[2])] :
                    shape \in KernelShapes, at \in KernelCenters }

\* calculateBounds, calculatedShapes.set and layerToSvg for the shape, as layer "ref"
PlaceShape ==
  /\ ~kernel.placed
  /\ kernel' = [kernel EXCEPT
                  !.placed = TRUE,
                  !.bounds = calculateBounds(kernel.shape, kernel.centerX, kernel.centerY),
                  !.element = layerToSvg(SemanticLayer("ref", kernel.shape, CenteredPos),
                                         kernel.centerX, kernel.centerY)]
  /\ calculatedShapes' =
       ShapesSet(calculatedShapes, "ref",
                 CalculatedShape("ref", kernel.centerX, kernel.centerY,
                                 calculateBounds(kernel.shape, kernel.centerX,
                                                 kernel.centerY)))
  /\ UNCHANGED << currentMode, metadata, files, console, requests, work, prompt, spec,
                  call, probe >>

\* calculatePosition for a layer relative to "ref"
ResolveBeside ==
  /\ kernel.placed /\ ~kernel.beside
  /\ \E position \in KernelPositions :
       kernel' = [kernel EXCEPT
                    !.beside = TRUE,
                    !.position = position,
                    !.neighbour =
                      calculatePosition(SemanticLayer("beside", CircleShape(5), position),
                                        GraphCanvas.width, GraphCanvas.height,
                                        calculatedShapes)]
  /\ UNCHANGED << currentMode, metadata, files, console, requests, work, prompt, spec,
                  call, calculatedShapes, probe >>

NextGeometry == PlaceShape \/ ResolveBeside

SpecGeometry == InitGeometry /\ [][NextGeometry]_vars

\* ------------------------------------------------------------ the reference graph
\* Layer m is relative to layer n: m's position is relative and names n's identifier.
RelativeToLayer(layers, m, n) ==
  /\ layers[m].position.type = "relative"
  /\ layers[m].position.relativeTo = layers[n].id
UniqueIds(layers) ==
  \A m, n \in 1..Len(layers) : layers[m].id = layers[n].id => m = n
\* the layers reached from `from` along one to `steps` references
RECURSIVE ReachedIn(_, _, _)
ReachedIn(layers, from, steps) ==
  IF steps = 0 THEN {}
  ELSE LET next == { n \in 1..Len(layers) : \E m \in from : RelativeToLayer(layers, m, n) }
       IN next \cup ReachedIn(layers, next, steps - 1)
Reaches(layers, m, n) == n \in ReachedIn(layers, {m}, Len(layers))
Cyclic(layers) == \E m \in 1..Len(layers) : Reaches(layers, m, m)
\* a cycle through two or more layers
CyclicOverTwoOrMore(layers) ==
  \E m, n \in 1..Len(layers) : m # n /\ Reaches(layers, m, n) /\ Reaches(layers, n, m)
\* the layers whose relative position names no layer of the specification
UnknownReferrers(layers) ==
  { m \in 1..Len(layers) :
      /\ layers[m].position.type = "relative"
      /\ Truthy(layers[m].position.relativeTo)
      /\ \A n \in 1..Len(layers) : layers[n].id # layers[m].position.relativeTo }
\* `order` lists every layer of `layers` exactly once
IsPermutation(order, layers) ==
  /\ Len(order) = Len(layers)
  /\ \A j \in 1..Len(layers) : Cardinality({ m \in 1..Len(order) : order[m] = j }) = 1
\* where layer j stands in `order`
IndexIn(order, j) == CHOOSE m \in 1..Len(order) : order[m] = j
DeclarationOrder(layers) == [j \in 1..Len(layers) |-> j]
\* the ordering step is over: sortLayersByDependencies returned `call.sorted`
Ordered == call.pc = "place" \/ (call.pc = "returned" /\ call.result.error # StackExhausted)
WellFormed(layers) == UniqueIds(layers) /\ ~Cyclic(layers)

\* ------------------------------------------------------------ claims

\* C1: for a specification with unique identifiers and an acyclic reference graph
\* sortLayersByDependencies returns, and what it returns is a permutation of the
\* declared layers in which every referent stands strictly before its referencer.
C1_SortedIsDependencyOrder ==
  /\ call.result.error = StackExhausted => ~WellFormed(spec.layers)
  /\ (Ordered /\ WellFormed(spec.layers)) =>
         /\ IsPermutation(call.sorted, spec.layers)
         /\ \A m, n \in 1..Len(spec.layers) :
              RelativeToLayer(spec.layers, m, n) =>
                IndexIn(call.sorted, n) < IndexIn(call.sorted, m)

\* a chain c -> b -> a declared referencer first has been put in dependency order
C1_Witness ==
  /\ call.pc = "place"
  /\ WellFormed(spec.layers)
  /\ Len(spec.layers) = 3
  /\ RelativeToLayer(spec.layers, 1, 2) /\ RelativeToLayer(spec.layers, 2, 3)
  /\ call.sorted = << 3, 2, 1 >>

\* C2: a specification whose reference graph has a cycle through two or more
\* layers fails with a CyclicReferenceError that names the identifiers of the cycle.
C2_CycleRaisesCyclicReferenceError ==
  (call.pc = "returned" /\ UniqueIds(spec.layers) /\ CyclicOverTwoOrMore(spec.layers)) =>
    /\ ~call.result.returned
    /\ call.result.error.name = "CyclicReferenceError"
    /\ \E m \in 1..Len(spec.layers) :
         Reaches(spec.layers, m, m) /\ call.result.error.id = spec.layers[m].id

\* C3: the recursion of processLayer is bounded for every finite specification: no
\* more processLayer frames are open than the specification has layers, and the
\* ordering step never ends by exhausting the call stack.
C3_OrderingRecursionIsBounded ==
  /\ Len(call.stack) <= Len(spec.layers)
  /\ call.result.error # StackExhausted

\* C4: in a specification with unique identifiers and no cycle, a relative position
\* that names an identifier no layer has is not rejected by the orderer, which
\* returns a permutation of the layers (the declaration order when no reference
\* names a layer); the run then fails when calculatePosition looks the referent up,
\* with the reference-not-found error naming that identifier, at the first such
\* layer of the order, every layer before it being placed.
C4_UnknownReferenceFailsAtLookup ==
  (/\ call.pc \in { "place", "returned" }
   /\ UnknownReferrers(spec.layers) # {}
   /\ WellFormed(spec.layers)) =>
    /\ call.result.error # StackExhausted
    /\ Ordered =>
         /\ IsPermutation(call.sorted, spec.layers)
         /\ (\A m, n \in 1..Len(spec.layers) : ~RelativeToLayer(spec.layers, m, n))
              => call.sorted = DeclarationOrder(spec.layers)
    /\ call.pc = "returned" =>
         /\ ~call.result.returned
         /\ call.k \in 1..Len(call.sorted)
         /\ call.sorted[call.k] \in UnknownReferrers(spec.layers)
         /\ call.result.error.name = "Error"
         /\ call.result.error.about = "reference_shape_not_found"
         /\ call.result.error.id = spec.layers[call.sorted[call.k]].position.relativeTo
         /\ \A j \in 1..(call.k - 1) :
              /\ call.sorted[j] \notin UnknownReferrers(spec.layers)
              /\ spec.layers[call.sorted[j]].id \in DOMAIN calculatedShapes

\* the run failed on an unknown referent after a layer declared later was placed first
C4_Witness ==
  /\ call.pc = "returned"
  /\ WellFormed(spec.layers)
  /\ Len(spec.layers) = 3
  /\ UnknownReferrers(spec.layers) = {3}
  /\ RelativeToLayer(spec.layers, 1, 2)
  /\ call.k = 3
  /\ call.result.error = ReferenceNotFound(spec.layers[3].position)

\* the requests for which the loop printed an error raised by the resolver
FailedResolutions ==
  { console[j].request : j \in { m \in 1..Len(console) :
      console[m].error.about \in { "reference_shape_not_found",
                                   "maximum_call_stack_size_exceeded" } } }

\* the call of generateSemanticSvg has ended with an error raised by the resolver
ResolutionFailed ==
  /\ call.pc = "returned"
  /\ call.result.error.about \in { "reference_shape_not_found",
                                   "maximum_call_stack_size_exceeded" }

\* C5: a call of generateSemanticSvg that ends with an unknown-reference or
\* call-stack error hands its caller no markup, whatever it had emitted before the
\* failure; the CLI's next step prints the error and leaves the SVG files and the
\* metadata as they were, so that no file and no metadata entry ever belongs to a
\* request whose resolution failed.
C5_FailedRunSavesNothing ==
  /\ [](ResolutionFailed => (~call.result.returned /\ call.result.markup = << >>))
  /\ [][ResolutionFailed =>
          /\ metadata' = metadata
          /\ files' = files
          /\ console' = Append(console, [request |-> prompt.request,
                                         error |-> call.result.error])]_vars
  /\ [](\A r \in FailedResolutions :
          /\ \A j \in 1..Len(metadata) : metadata[j].prompt.request # r
          /\ \A j \in 1..Len(files) : files[j].request # r)

\* the second request failed on an unknown referent after it had placed a layer,
\* and the first request's SVG is the only one saved
C5_Witness ==
  /\ AtPrompt
  /\ requests = 2
  /\ 2 \in FailedResolutions
  /\ console[Len(console)].error.about = "reference_shape_not_found"
  /\ calculatedShapes # EmptyShapes
  /\ Len(metadata) = 1 /\ Len(files) = 1

\* C6: whatever the earlier requests of the session resolved, a call of
\* generateSemanticSvg ends exactly as the same call does in a process whose
\* placement mapping is empty: with the same markup or the same error.
C6_RunDependsOnlyOnItsSpecification ==
  call.pc = "returned" =>
    call.result = generateSemanticSvg(spec, EmptyShapes).call.result

\* a second run fails on a referent that only the first run's saved SVG holds
C6_Witness ==
  /\ call.pc = "returned"
  /\ requests = 2
  /\ call.result.error.about = "reference_shape_not_found"
  /\ Len(files) = 1
  /\ \E j \in 1..Len(files[1].markup) : files[1].markup[j].id = call.result.error.id

\* C7: every declaration order of the ball valve on the 400 by 400 canvas resolves
\* center_circle to (200,200), left to (170,200) and right to (230,200).
C7_BallValvePlacement ==
  (call.pc = "returned" /\ spec \in ValveSpecs) =>
    /\ call.result.returned
    /\ DOMAIN calculatedShapes = { "center_circle", "left", "right" }
    /\ calculatedShapes["center_circle"].centerX = Num(200)
    /\ calculatedShapes["center_circle"].centerY = Num(200)
    /\ calculatedShapes["left"].centerX = Num(170)
    /\ calculatedShapes["left"].centerY = Num(200)
    /\ calculatedShapes["right"].centerX = Num(230)
    /\ calculatedShapes["right"].centerY = Num(200)
    /\ \A j \in 1..Len(call.result.markup) :
         LET element == call.result.markup[j] IN
         element.id \in DOMAIN calculatedShapes =>
           /\ element.x = calculatedShapes[element.id].centerX
           /\ element.y = calculatedShapes[element.id].centerY

\* the valve declared with both triangles before the circle has been resolved
C7_Witness ==
  /\ call.pc = "returned"
  /\ spec = SemanticSvgSpec(ValveCanvas, << ValveRight, ValveLeft, ValveCircle >>)
  /\ call.result.returned

\* C10: for a specification (identifiers unique) in which no layer has a relative
\* position, sortLayersByDependencies returns the declaration order, and the
\* elements of the markup follow it.
C10_NoRelativeKeepsDeclarationOrder ==
  (/\ call.pc \in { "place", "returned" }
   /\ UniqueIds(spec.layers)
   /\ \A m \in 1..Len(spec.layers) : spec.layers[m].position.type # "relative") =>
    /\ call.result.error = NoError
    /\ Ordered => call.sorted = DeclarationOrder(spec.layers)
    /\ call.pc = "returned" =>
         /\ Len(call.result.markup) = Len(spec.layers) + 2
         /\ \A j \in 1..Len(spec.layers) : call.result.markup[j + 1].id = spec.layers[j].id

\* three layers without a relative position, declared c, a, b, have been emitted
C10_Witness ==
  /\ call.pc = "returned"
  /\ Len(spec.layers) = 3
  /\ \A m \in 1..3 : spec.layers[m].position.type # "relative"
  /\ << spec.layers[1].id, spec.layers[2].id, spec.layers[3].id >> = << "c", "a", "b" >>
  /\ call.result.returned

\* the call under examination resolved a relative position whose referent is placed
ProbePlaced ==
  /\ probe.resolved
  /\ probe.layer.position.type = "relative"
  /\ probe.layer.position.relativeTo \in DOMAIN probe.shapes
ProbeReferent == probe.shapes[probe.layer.position.relativeTo]
\* the offset of the position, 0 when it has none
ProbeOffset ==
  IF probe.layer.position.offset = Absent THEN 0 ELSE probe.layer.position.offset[1]
\* the alignment table of the position resolver, with the offset in canvas units
TableCenter(referent, alignment, offset) ==
  CASE alignment = "tip_touches_left" ->
         [x |-> [q |-> referent.bounds.left.q + 4 * offset, s |-> referent.bounds.left.s],
          y |-> referent.centerY]
    [] alignment = "tip_touches_right" ->
         [x |-> [q |-> referent.bounds.right.q + 4 * offset, s |-> referent.bounds.right.s],
          y |-> referent.centerY]
    [] alignment = "tip_touches_top" ->
         [x |-> referent.centerX,
          y |-> [q |-> referent.bounds.top.q + 4 * offset, s |-> referent.bounds.top.s]]
    [] alignment = "tip_touches_bottom" ->
         [x |-> referent.centerX,
          y |-> [q |-> referent.bounds.bottom.q + 4 * offset,
                 s |-> referent.bounds.bottom.s]]
    [] alignment = "center_aligned" ->
         [x |-> referent.centerX, y |-> referent.centerY]
    [] alignment = "adjacent_left" ->
         [x |-> [q |-> referent.bounds.left.q - 4 * offset, s |-> referent.bounds.left.s],
          y |-> referent.centerY]
    [] alignment = "adjacent_right" ->
         [x |-> [q |-> referent.bounds.right.q + 4 * offset, s |-> referent.bounds.right.s],
          y |-> referent.centerY]
TableAlignments ==
  { "tip_touches_left", "tip_touches_right", "tip_touches_top", "tip_touches_bottom",
    "center_aligned", "adjacent_left", "adjacent_right" }

\* C8: for a relative position whose referent is placed, calculatePosition returns
\* the center the alignment table gives, the offset being 0 when absent:
\* tip_touches_left adds the offset to the left edge, adjacent_left subtracts it.
C8_RelativeCenterFollowsTable ==
  (ProbePlaced /\ probe.layer.position.alignment \in TableAlignments) =>
    /\ ~probe.center.thrown
    /\ probe.center.at =
         TableCenter(ProbeReferent, probe.layer.position.alignment, ProbeOffset)

\* adjacent_left with offset 10 against a placed referent has been resolved
C8_Witness ==
  /\ ProbePlaced
  /\ probe.layer.position.alignment = "adjacent_left"
  /\ probe.layer.position.offset = Some(10)
  /\ ~probe.center.thrown
  /\ probe.center.at.x # ProbeReferent.bounds.left

TipOf(alignment) ==
  CASE alignment = "edge_touches_left" -> "tip_touches_left"
    [] alignment = "edge_touches_right" -> "tip_touches_right"
    [] alignment = "edge_touches_top" -> "tip_touches_top"
    [] alignment = "edge_touches_bottom" -> "tip_touches_bottom"

\* C9: each edge_touches_* alignment resolves to the center that the matching
\* tip_touches_* alignment gives for the same referent and offset.
C9_EdgeTouchesResolvesAsTipTouches ==
  (/\ ProbePlaced
   /\ probe.layer.position.alignment \in
        { "edge_touches_left", "edge_touches_right", "edge_touches_top",
          "edge_touches_bottom" }) =>
    /\ ~probe.center.thrown
    /\ probe.center.at =
         TableCenter(ProbeReferent, TipOf(probe.layer.position.alignment), ProbeOffset)

\* C11: a run over a specification with unique identifiers that returns emits
\* exactly one element per layer, in the order the orderer produced: element j is
\* that of the j-th layer of `sorted`, so the element of a referent stands before
\* that of every layer relative to it, wherever the two were declared.
C11_OneElementPerLayerInDependencyOrder ==
  (UniqueIds(spec.layers) /\ call.pc = "returned" /\ call.result.returned) =>
    /\ IsPermutation(call.sorted, spec.layers)
    /\ Len(call.result.markup) = Len(spec.layers) + 2
    /\ \A j \in 1..Len(call.sorted) :
         call.result.markup[j + 1].id = spec.layers[call.sorted[j]].id
    /\ \A m \in 1..Len(spec.layers) :
         Cardinality({ j \in 2..(Len(spec.layers) + 1) :
                        call.result.markup[j].id = spec.layers[m].id }) = 1
    /\ \A m, n \in 1..Len(spec.layers) :
         RelativeToLayer(spec.layers, m, n) =>
           \E j, l \in 2..(Len(spec.layers) + 1) :
             /\ j < l
             /\ call.result.markup[j].id = spec.layers[n].id
             /\ call.result.markup[l].id = spec.layers[m].id

\* two layers declared before their common referent have been emitted after it
C11_Witness ==
  /\ call.pc = "returned" /\ call.result.returned
  /\ UniqueIds(spec.layers)
  /\ Len(spec.layers) = 3
  /\ RelativeToLayer(spec.layers, 1, 3) /\ RelativeToLayer(spec.layers, 2, 3)
  /\ call.result.markup[2].id = spec.layers[3].id
  /\ call.result.markup[3].id = spec.layers[1].id
  /\ call.result.markup[4].id = spec.layers[2].id

\* C12: the placement mapping is empty when the ordering of a call starts, and
\* empty again once the call has ended, by return or by throw: between two calls
\* of generateSemanticSvg no placement is stored.
C12_MappingScopedToCall ==
  /\ call.pc = "sort" => calculatedShapes = EmptyShapes
  /\ call.pc \in { "returned", "none" } => calculatedShapes = EmptyShapes

\* the identifiers of the layers of `sorted` before position k
PlacedBefore(k) == { spec.layers[call.sorted[j]].id : j \in 1..(k - 1) }

\* C13: during the placing loop of a run over a specification with unique
\* identifiers, an iteration that places a layer inserts a key the mapping did not
\* hold, and no step of the loop changes or removes an entry the mapping holds;
\* the keys are the identifiers of the layers placed so far, and when the run
\* returns they are the identifiers of all the layers.
C13_PlacedOnceAndKept ==
  /\ [][(call.pc = "place" /\ UniqueIds(spec.layers)) =>
          /\ \A id \in DOMAIN calculatedShapes :
               /\ id \in DOMAIN calculatedShapes'
               /\ calculatedShapes'[id] = calculatedShapes[id]
          /\ call'.k = call.k + 1 =>
               /\ spec.layers[call.sorted[call.k]].id \notin DOMAIN calculatedShapes
               /\ DOMAIN calculatedShapes' =
                    DOMAIN calculatedShapes \cup { spec.layers[call.sorted[call.k]].id }]_vars
  /\ []((call.pc = "place" /\ UniqueIds(spec.layers)) =>
          DOMAIN calculatedShapes = PlacedBefore(call.k))
  /\ []((call.pc = "returned" /\ call.result.returned /\ UniqueIds(spec.layers)) =>
          DOMAIN calculatedShapes = { spec.layers[m].id : m \in 1..Len(spec.layers) })

\* a run over three layers, one of them relative, has returned with three placements
C13_Witness ==
  /\ call.pc = "returned" /\ call.result.returned
  /\ UniqueIds(spec.layers)
  /\ Len(spec.layers) = 3
  /\ \E m, n \in 1..3 : RelativeToLayer(spec.layers, m, n)
  /\ DOMAIN calculatedShapes = Ids

\* the layer the placing loop is at
PlacingLayer == spec.layers[call.sorted[call.k]]

\* C14: an iteration of the placing loop in which calculatePosition throws leaves
\* the placement mapping as it was; an iteration in which it returns a center
\* changes the mapping by the loop's own insertion only (the entry of the layer
\* being placed, holding the center returned), whatever the kind of the position;
\* and the mapping changes at no other step than the clear on entry and the
\* loop's insertion.
C14_ResolverLeavesMappingUnchanged ==
  /\ [][(call.pc = "place" /\ call.k <= Len(call.sorted)) =>
          /\ (call'.pc = "returned" /\ call'.result.error.about = "reference_shape_not_found")
               => calculatedShapes' = calculatedShapes
          /\ call'.k = call.k + 1 =>
               /\ DOMAIN calculatedShapes' = DOMAIN calculatedShapes \cup { PlacingLayer.id }
               /\ \A id \in DOMAIN calculatedShapes \ { PlacingLayer.id } :
                    calculatedShapes'[id] = calculatedShapes[id]
               /\ calculatedShapes'[PlacingLayer.id].centerX =
                    calculatePosition(PlacingLayer, spec.canvasSize.width,
                                      spec.canvasSize.height, calculatedShapes).at.x
               /\ calculatedShapes'[PlacingLayer.id].centerY =
                    calculatePosition(PlacingLayer, spec.canvasSize.width,
                                      spec.canvasSize.height, calculatedShapes).at.y]_vars
  /\ [][calculatedShapes' # calculatedShapes =>
          \/ call.pc = "none" /\ call'.pc = "sort"
          \/ call.pc = "place" /\ call'.k = call.k + 1]_vars

\* the loop placed an absolute layer and a layer relative to it, then failed on a
\* layer relative to an unknown one, the two placements still being in the mapping
C14_Witness ==
  /\ call.pc = "returned"
  /\ call.result.error.about = "reference_shape_not_found"
  /\ call.k = 3
  /\ spec.layers[call.sorted[1]].position.type = "absolute"
  /\ spec.layers[call.sorted[2]].position.type = "relative"
  /\ Cardinality(DOMAIN calculatedShapes) = 2

\* C15: calculatePosition returns (canvasWidth / 2, canvasHeight / 2) for a
\* centered position, on every canvas and whatever the placement mapping holds.
C15_CenteredIsCanvasCenter ==
  (probe.resolved /\ probe.layer.position.type = "centered") =>
    /\ ~probe.center.thrown
    /\ probe.center.at.x = [q |-> 2 * probe.canvasSize.width, s |-> 0]
    /\ probe.center.at.y = [q |-> 2 * probe.canvasSize.height, s |-> 0]

\* a centered position has been resolved on the 401 by 300 canvas, a referent
\* being placed elsewhere
C15_Witness ==
  /\ probe.resolved
  /\ probe.layer.position.type = "centered"
  /\ probe.canvasSize = CanvasSize(401, 300)
  /\ "ref" \in DOMAIN probe.shapes
  /\ probe.shapes["ref"].centerX = Num(10)
  /\ probe.center.at = Point([q |-> 802, s |-> 0], Num(150))

\* C16: a relative position whose referent is placed and whose alignment is absent
\* or is no alignment of the vocabulary resolves, without an error, to the
\* referent's center: what center_aligned gives for the same referent.
C16_UnknownAlignmentIsCenterAligned ==
  (ProbePlaced /\ probe.layer.position.alignment \notin Alignments) =>
    /\ ~probe.center.thrown
    /\ probe.center.at = Point(ProbeReferent.centerX, ProbeReferent.centerY)
    /\ probe.center =
         calculatePosition([probe.layer EXCEPT !.position.alignment = "center_aligned"],
                           probe.canvasSize.width, probe.canvasSize.height, probe.shapes)

\* a position without alignment, offset 10, has been resolved against a rectangle
\* placed at (10,20)
C16_Witness ==
  /\ ProbePlaced
  /\ probe.layer.position.alignment = Undefined
  /\ probe.layer.position.offset = Some(10)
  /\ ProbeReferent.bounds.left = Num(-10)
  /\ probe.center = Center(Point(Num(10), Num(20)))

\* C17: every SVG saved by a refine command is saved under the mode of the SVG
\* saved just before it, and a semantic refinement is in progress only when the
\* last saved SVG is semantic, whatever the current mode of the loop is.
C17_RefineUsesLastSavedMode ==
  /\ \A j \in 1..Len(metadata) :
       metadata[j].prompt.refine => (j > 1 /\ metadata[j].mode = metadata[j - 1].mode)
  /\ (call.pc # "none" /\ prompt.refine) =>
       (metadata # << >> /\ getLastSvg(metadata).mode = "semantic")

\* after a semantic SVG was saved and the loop was switched to coordinate mode, a
\* refine command has been resolved by the semantic generator
C17_Witness ==
  /\ call.pc = "returned" /\ call.result.returned
  /\ prompt.refine
  /\ currentMode = "coordinate"
  /\ Len(metadata) = 1
  /\ metadata[1].mode = "semantic"

\* the box of half-width w and half-height h around the center of the shape placed
KernelBox(w, h) ==
  Box(Minus(kernel.centerX, w), Plus(kernel.centerX, w),
      Minus(kernel.centerY, h), Plus(kernel.centerY, h))
\* the offset of the neighbour's position, 0 when it has none
KernelOffset == IF kernel.position.offset = Absent THEN 0 ELSE kernel.position.offset[1]

\* C18: the bounds of an ellipse placed at (cx, cy) are cx - radiusX, cx + radiusX,
\* cy - radiusY, cy + radiusY, and a neighbour placed tip_touches_right of it gets
\* x = cx + radiusX + offset.
C18_EllipseBoundsFollowRadii ==
  (kernel.placed /\ kernel.shape.shapeType = "ellipse") =>
    /\ kernel.bounds = KernelBox(Num(kernel.shape.radiusX), Num(kernel.shape.radiusY))
    /\ (kernel.beside /\ kernel.position.alignment = "tip_touches_right") =>
         /\ ~kernel.neighbour.thrown
         /\ kernel.neighbour.at.x =
              Plus(kernel.centerX, Num(kernel.shape.radiusX + KernelOffset))

\* C19: the bounds of a triangle: equilateral pointing right or left, size wide and
\* size * sqrt(3) / 2 tall; equilateral pointing up or down, size by size;
\* isosceles or right, the box of the placeholder vertices drawn for it (50 each
\* way from the center), whatever its size.
C19_TriangleBoundsFollowRule ==
  (kernel.placed /\ kernel.shape.shapeType = "triangle") =>
    IF kernel.shape.triangleType = "equilateral"
    THEN IF kernel.shape.orientation \in { "pointing_right", "pointing_left" }
         THEN kernel.bounds = KernelBox(Half(kernel.shape.size), HalfHeight(kernel.shape.size))
         ELSE kernel.bounds = KernelBox(Half(kernel.shape.size), Half(kernel.shape.size))
    ELSE /\ kernel.bounds = KernelBox(Num(FallbackOffset), Num(FallbackOffset))
         /\ \A j \in 1..Len(kernel.element.element.points) :
              LET vertex == kernel.element.element.points[j] IN
              /\ vertex.x \in { kernel.bounds.left, kernel.centerX, kernel.bounds.right }
              /\ vertex.y \in { kernel.bounds.top, kernel.bounds.bottom }

\* a <= b for numbers without an irrational part
AtMost(a, b) == a.s = 0 /\ b.s = 0 /\ a.q <= b.q
\* the vertex lies in the box
Inside(vertex, box) ==
  /\ AtMost(box.left, vertex.x) /\ AtMost(vertex.x, box.right)
  /\ AtMost(box.top, vertex.y) /\ AtMost(vertex.y, box.bottom)

C21_WellFormedRunCompletes ==
  (/\ call.pc \in { "place", "returned" }
   /\ WellFormed(spec.layers)
   /\ UnknownReferrers(spec.layers) = {}) =>
    /\ call.result.error = NoError
    /\ call.pc = "returned" => call.result.returned
    /\ (call.pc = "place" /\ call.k <= Len(call.sorted) /\ DependsOn(PlacingLayer)) =>
         PlacingLayer.position.relativeTo \in DOMAIN calculatedShapes

\* a chain of three layers declared referencer first (1 -> 2 -> 3) has been
\* resolved and the run has returned
C21_Witness ==
  /\ call.pc = "returned" /\ call.result.returned
  /\ WellFormed(spec.layers) /\ UnknownReferrers(spec.layers) = {}
  /\ Len(spec.layers) = 3
  /\ RelativeToLayer(spec.layers, 1, 2) /\ RelativeToLayer(spec.layers, 2, 3)
  /\ DOMAIN calculatedShapes = Ids

\* the layers that are the first declared with their identifier
FirstOccurrences(layers) ==
  { m \in 1..Len(layers) : \A n \in 1..(m - 1) : layers[n].id # layers[m].id }
\* the layers of `sorted`
SortedLayers == { call.sorted[j] : j \in 1..Len(call.sorted) }
\* a relative position names an identifier that two layers share
NamesRepeated(layers) ==
  \E l, m, n \in 1..Len(layers) :
    /\ m < n /\ layers[m].id = layers[n].id
    /\ RelativeToLayer(layers, l, m)

\* C22 as claimed: when layers share an identifier (in a specification without a
\* cycle or an unknown referent), what sortLayersByDependencies returns holds the
\* first layer declared with each identifier and no other, no error is raised,
\* and the markup returned has fewer elements than the specification has layers.
C22_FirstOfRepeatedIdKept ==
  (/\ ~UniqueIds(spec.layers)
   /\ ~Cyclic(spec.layers)
   /\ UnknownReferrers(spec.layers) = {}) =>
    /\ call.result.error = NoError
    /\ Ordered =>
         /\ SortedLayers = FirstOccurrences(spec.layers)
         /\ Len(call.sorted) < Len(spec.layers)
    /\ call.pc = "returned" =>
         /\ call.result.returned
         /\ Len(call.result.markup) < Len(spec.layers) + 2

\* C22 amended: when layers share an identifier and no relative position names a
\* shared identifier, what sortLayersByDependencies returns holds the first layer
\* declared with each identifier, once, and no other; a run that returns emits
\* fewer elements than the specification has layers; and without a cycle or an
\* unknown referent no error is raised.
C22_UnnamedRepeatKeepsFirst ==
  (/\ call.pc \in { "place", "returned" }
   /\ ~UniqueIds(spec.layers)
   /\ ~NamesRepeated(spec.layers)) =>
    /\ Ordered =>
         /\ SortedLayers = FirstOccurrences(spec.layers)
         /\ Len(call.sorted) = Cardinality(FirstOccurrences(spec.layers))
         /\ Len(call.sorted) < Len(spec.layers)
    /\ (call.pc = "returned" /\ call.result.returned) =>
         Len(call.result.markup) = Len(call.sorted) + 2
    /\ (~Cyclic(spec.layers) /\ UnknownReferrers(spec.layers) = {}) =>
         /\ call.result.error = NoError
         /\ call.pc = "returned" => call.result.returned

\* of two layers declared as b with different positions, with a layer between
\* them, the run kept the first and returned two elements
C22_Witness ==
  /\ call.pc = "returned" /\ call.result.returned
  /\ Len(spec.layers) = 3
  /\ spec.layers[1].id = "b" /\ spec.layers[3].id = "b" /\ spec.layers[2].id = "c"
  /\ spec.layers[1].position = CenteredPos
  /\ spec.layers[3].position = AbsolutePos(50, 60)
  /\ call.sorted = << 1, 2 >>
  /\ Len(call.result.markup) = 4
  /\ calculatedShapes["b"].centerX = Num(200)

\* the position is relative without a relativeTo, or of no type of the schema
Unplaceable(position) ==
  \/ position.type = "relative" /\ position.relativeTo \in { Undefined, "" }
  \/ position.type \notin { "absolute", "centered", "relative" }
\* the specification with every such position replaced by a centered one
WithCentered(s) ==
  [s EXCEPT !.layers =
     [j \in 1..Len(s.layers) |->
        IF Unplaceable(s.layers[j].position)
        THEN [s.layers[j] EXCEPT !.position = CenteredPos]
        ELSE s.layers[j]]]

\* C23: a layer whose position is relative without relativeTo, or of a type other
\* than absolute, centered and relative, is placed at the canvas center and its
\* element is emitted there; the run orders the layers and ends exactly as it
\* does when each such position is a centered one: no error comes of it and the
\* layer is ordered as one that depends on nothing.
C23_UnplaceablePositionIsCentered ==
  (/\ call.pc \in { "place", "returned" }
   /\ \E m \in 1..Len(spec.layers) : Unplaceable(spec.layers[m].position)) =>
    /\ (call.pc = "place" /\ call.k > 1
          /\ Unplaceable(spec.layers[call.sorted[call.k - 1]].position)) =>
         LET placed == calculatedShapes[spec.layers[call.sorted[call.k - 1]].id] IN
         /\ placed.centerX = [q |-> 2 * spec.canvasSize.width, s |-> 0]
         /\ placed.centerY = [q |-> 2 * spec.canvasSize.height, s |-> 0]
         /\ call.svg[Len(call.svg)].x = placed.centerX
         /\ call.svg[Len(call.svg)].y = placed.centerY
    /\ call.pc = "returned" =>
         call = generateSemanticSvg(WithCentered(spec), EmptyShapes).call

\* b, relative to c, was declared before c, whose relative position has no
\* relativeTo: c has been placed first, at the canvas center, and the run returned
C23_Witness ==
  /\ call.pc = "returned" /\ call.result.returned
  /\ Len(spec.layers) = 2
  /\ RelativeToLayer(spec.layers, 1, 2)
  /\ spec.layers[2].position.type = "relative"
  /\ spec.layers[2].position.relativeTo = Undefined
  /\ call.sorted = << 2, 1 >>
  /\ calculatedShapes["c"].centerX = Num(200)
  /\ calculatedShapes["c"].centerY = Num(150)

====
